---- MODULE Spec2Model ----
(***************************************************************************)
(* A model of tensorflow/python/frozen_keras/utils/generic_utils.py: the   *)
(* custom-object registry (_GLOBAL_CUSTOM_OBJECTS, _GLOBAL_CUSTOM_NAMES),  *)
(* CustomObjectScope, register_keras_serializable, the lookups, the        *)
(* skip_failed_serialization context and serialize_keras_object /          *)
(* deserialize_keras_object.                                               *)
(*                                                                         *)
(* Python values are tagged records; a dict is a function whose domain is  *)
(* its key set; Python objects (classes, functions) are identified by an   *)
(* id string and described by the attribute operators below.               *)
(***************************************************************************)
EXTENDS Integers, Sequences, FiniteSets, TLC

VARIABLES
  GLOBAL_CUSTOM_OBJECTS,      \* _GLOBAL_CUSTOM_OBJECTS: name -> object
  GLOBAL_CUSTOM_NAMES,        \* _GLOBAL_CUSTOM_NAMES: object -> name
  SKIP_FAILED_SERIALIZATION,  \* _SKIP_FAILED_SERIALIZATION
  scopes,                     \* the CustomObjectScope objects: custom_objects, backup
  stack,                      \* the active `with` blocks of the main thread, innermost first
  pc,                         \* position of each thread of the concurrent scenario
  input,                      \* the arguments of the call under study
  ret                         \* outcome of the last operation

vars == <<GLOBAL_CUSTOM_OBJECTS, GLOBAL_CUSTOM_NAMES, SKIP_FAILED_SERIALIZATION,
          scopes, stack, pc, input, ret>>

(***************************************************************************)
(* Bounds of the model.                                                    *)
(***************************************************************************)
MaxNesting == 2      \* nested `with` blocks
MaxSkipNesting == 3  \* nested skip_failed_serialization() contexts
MaxDepth == 2        \* objects nested inside the config of the serialized object

(***************************************************************************)
(* Python objects used as inputs.                                          *)
(***************************************************************************)
Classes == {"ClsA", "ClsB", "ClsD", "ClsNoCfg", "ClsNI"}
Functions == {"fnF", "fnG"}
Objects == Classes \cup Functions

IsClass(o) == o \in Classes
IsFunction(o) == o \in Functions
\* ClsNoCfg is a class that defines no get_config
HasGetConfig(o) == o \in {"ClsA", "ClsB", "ClsD", "ClsNI"}
\* ClsD is a dict subclass that defines get_config: isinstance(ClsD(), dict)
IsDictSubclass(o) == o = "ClsD"
\* instances of ClsNI inherit a get_config that raises NotImplementedError
GetConfigRaises(o) == o = "ClsNI"
\* every class with get_config has a from_config classmethod; ClsNoCfg and the
\* functions are called as cls(**config)
HasFromConfig(o) == o \in {"ClsA", "ClsB", "ClsD", "ClsNI"}
\* ClsA.from_config(cls, config, custom_objects=None); the others take config only
FromConfigTakesCustomObjects(o) == o = "ClsA"
\* obj.__name__
DunderName(o) ==
  CASE o = "ClsA" -> "A"
    [] o = "ClsB" -> "B"
    [] o = "ClsD" -> "D"
    [] o = "ClsNoCfg" -> "NoCfg"
    [] o = "ClsNI" -> "NI"
    [] o = "fnF" -> "f"
    [] o = "fnG" -> "g"

\* Python values
None == [t |-> "none"]
Str(s) == [t |-> "str", v |-> s]
Obj(o) == [t |-> "obj", id |-> o]
Dict(d) == [t |-> "dict", d |-> d]
IntVal(i) == [t |-> "int", v |-> i]
Bool(b) == [t |-> "bool", v |-> b]
Instance(cls, config) == [t |-> "inst", cls |-> cls, config |-> config]
Raise(e) == [t |-> "raise", exc |-> e]

EmptyDict == <<>>

\* dict.update(other) on a copy
DictUpdate(d, other) ==
  [k \in DOMAIN d \cup DOMAIN other |-> IF k \in DOMAIN other THEN other[k] ELSE d[k]]

\* d[k] = v on a copy
DictSet(d, k, v) ==
  [x \in DOMAIN d \cup {k} |-> IF x = k THEN v ELSE d[x]]

(***************************************************************************)
(* CustomObjectScope                                                       *)
(***************************************************************************)
ScopeIds == {"s1", "s2"}

\* CustomObjectScope.__init__: custom_objects = args, backup = None
CustomObjectScopeInit(args) == [custom_objects |-> args, backup |-> None]

RECURSIVE UpdateAll(_, _)
\* for objects in self.custom_objects: _GLOBAL_CUSTOM_OBJECTS.update(objects)
UpdateAll(g, args) ==
  IF args = <<>> THEN g ELSE UpdateAll(DictUpdate(g, Head(args)), Tail(args))

\* the registry after __enter__
EnterObjects(g, args) == UpdateAll(g, args)

\* the backup taken by __enter__: _GLOBAL_CUSTOM_OBJECTS.copy()
EnterBackup(g) == Dict(g)

\* the registry after __exit__: clear(), then update(self.backup)
ExitObjects(g, backup) == DictUpdate(EmptyDict, backup.d)

(***************************************************************************)
(* register_keras_serializable, get_registered_name, get_registered_object *)
(***************************************************************************)
\* a registered_name that drops the separator
registered_name_NoSeparator(package, class_name) == package \o class_name

\* registered_name = package + '>' + class_name
registered_name(package, class_name) == package \o ">" \o class_name

\* class_name = name if name is not None else arg.__name__
class_name_of(name, arg) == IF name.t # "none" THEN name.v ELSE DunderName(arg)

\* the checks of decorator(arg) without the one on _GLOBAL_CUSTOM_NAMES
DecoratorRaises_NoNameCheck(g, n, key, arg) ==
  \/ IsClass(arg) /\ ~HasGetConfig(arg)
  \/ key \in DOMAIN g

\* the three checks of decorator(arg) that raise ValueError
DecoratorRaises(g, n, key, arg) ==
  \/ IsClass(arg) /\ ~HasGetConfig(arg)
  \/ key \in DOMAIN g
  \/ arg \in DOMAIN n

\* _GLOBAL_CUSTOM_OBJECTS[registered_name] = arg
DecoratorObjects(g, key, arg) == DictSet(g, key, arg)

\* _GLOBAL_CUSTOM_NAMES[arg] = registered_name
DecoratorNames(n, key, arg) == DictSet(n, arg, key)

\* get_registered_name(obj)
get_registered_name(n, obj) ==
  IF obj \in DOMAIN n THEN n[obj] ELSE DunderName(obj)

\* an optional dict argument: None or Dict(d); `x and name in x`
Truthy(x) == x.t # "none" /\ DOMAIN x.d # {}
InTable(x, name) == Truthy(x) /\ name \in DOMAIN x.d

\* a get_registered_object that looks in custom_objects before the global registry
get_registered_object_CustomFirst(g, name, custom_objects, module_objects) ==
  IF InTable(custom_objects, name) THEN Obj(custom_objects.d[name])
  ELSE IF name \in DOMAIN g THEN Obj(g[name])
  ELSE IF InTable(module_objects, name) THEN Obj(module_objects.d[name])
  ELSE None

\* get_registered_object(name, custom_objects, module_objects)
get_registered_object(g, name, custom_objects, module_objects) ==
  IF name \in DOMAIN g THEN Obj(g[name])
  ELSE IF InTable(custom_objects, name) THEN Obj(custom_objects.d[name])
  ELSE IF InTable(module_objects, name) THEN Obj(module_objects.d[name])
  ELSE None

(***************************************************************************)
(* The registry as a state machine: one thread running register calls,     *)
(* direct mutations through get_custom_objects() and nested `with` blocks. *)
(***************************************************************************)
\* the calls register_keras_serializable(package, name)(arg) that are tried
RegisterCalls == { <<"Custom", None, "ClsA">>,
                   <<"Custom", None, "ClsNoCfg">>,
                   <<"pkg", Str("A"), "fnF">>,
                   <<"Custom", Str("A"), "fnF">> }
\* s1 = CustomObjectScope({'MyObject': fnF}); s2 = CustomObjectScope({'Custom>A': ClsB}, {'MyObject': ClsB})
ScopeArgs(s) ==
  IF s = "s1" THEN << [MyObject |-> "fnF"] >>
  ELSE << ("Custom>A" :> "ClsB"), [MyObject |-> "ClsB"] >>
MutationKeys == {"MyObject"}
MutationObjects == {"ClsB"}

Frame(kind, s, entry, prev) == [kind |-> kind, s |-> s, entry |-> entry, prev |-> prev]

NoInput == [t |-> "noinput", op |-> "none"]
NoPc == [t \in {} |-> "idle"]

InitReg ==
  /\ GLOBAL_CUSTOM_OBJECTS = EmptyDict
  /\ GLOBAL_CUSTOM_NAMES = EmptyDict
  /\ SKIP_FAILED_SERIALIZATION = FALSE
  /\ scopes = [s \in ScopeIds |-> CustomObjectScopeInit(ScopeArgs(s))]
  /\ stack = <<>>
  /\ pc = NoPc
  /\ input = NoInput
  /\ ret = [op |-> "init"]

\* `with scope:` begins: scope.__enter__()
Enter(s) ==
  /\ Len(stack) < MaxNesting
  /\ scopes' = [scopes EXCEPT ![s].backup = EnterBackup(GLOBAL_CUSTOM_OBJECTS)]
  /\ GLOBAL_CUSTOM_OBJECTS' = EnterObjects(GLOBAL_CUSTOM_OBJECTS, scopes[s].custom_objects)
  /\ stack' = <<Frame("scope", s, GLOBAL_CUSTOM_OBJECTS, FALSE)>> \o stack
  /\ ret' = [op |-> "enter", s |-> s]
  /\ UNCHANGED <<GLOBAL_CUSTOM_NAMES, SKIP_FAILED_SERIALIZATION, pc, input>>

\* the innermost `with scope:` block ends: scope.__exit__()
Exit ==
  /\ stack # <<>>
  /\ Head(stack).kind = "scope"
  /\ GLOBAL_CUSTOM_OBJECTS' =
       ExitObjects(GLOBAL_CUSTOM_OBJECTS, scopes[Head(stack).s].backup)
  /\ stack' = Tail(stack)
  /\ ret' = [op |-> "exit", s |-> Head(stack).s, entry |-> Head(stack).entry]
  /\ UNCHANGED <<GLOBAL_CUSTOM_NAMES, SKIP_FAILED_SERIALIZATION, scopes, pc, input>>

\* register_keras_serializable(package, name)(arg)
Register(package, name, arg) ==
  LET key == registered_name(package, class_name_of(name, arg))
      call == [op |-> "register", package |-> package, name |-> name, arg |-> arg]
  IN
  /\ IF DecoratorRaises(GLOBAL_CUSTOM_OBJECTS, GLOBAL_CUSTOM_NAMES, key, arg)
     THEN /\ ret' = call @@ [out |-> Raise("ValueError")]
          /\ UNCHANGED <<GLOBAL_CUSTOM_OBJECTS, GLOBAL_CUSTOM_NAMES>>
     ELSE /\ GLOBAL_CUSTOM_OBJECTS' = DecoratorObjects(GLOBAL_CUSTOM_OBJECTS, key, arg)
          /\ GLOBAL_CUSTOM_NAMES' = DecoratorNames(GLOBAL_CUSTOM_NAMES, key, arg)
          /\ ret' = call @@ [out |-> Obj(arg)]
  /\ UNCHANGED <<SKIP_FAILED_SERIALIZATION, scopes, stack, pc, input>>

\* get_custom_objects()[k] = o
SetItem(k, o) ==
  /\ GLOBAL_CUSTOM_OBJECTS' = DictSet(GLOBAL_CUSTOM_OBJECTS, k, o)
  /\ ret' = [op |-> "setitem", key |-> k, arg |-> o]
  /\ UNCHANGED <<GLOBAL_CUSTOM_NAMES, SKIP_FAILED_SERIALIZATION, scopes, stack, pc, input>>

(***************************************************************************)
(* serialize_keras_object                                                  *)
(***************************************************************************)
LAYER_UNDEFINED_CONFIG_KEY == "layer was saved without config"
PASSIVE_KEY == "__passive_serialization__"

\* config.items() visits the keys in insertion order; the configs of the model
\* are built with their keys inserted in this order
KeyOrder == <<"k1", "k2">>
FirstKey(S) == KeyOrder[CHOOSE i \in 1..Len(KeyOrder) :
                  KeyOrder[i] \in S /\ \A j \in 1..(i - 1) : KeyOrder[j] \notin S]

\* isinstance(item, dict)
IsDictValue(item) == item.t = "dict" \/ (item.t = "inst" /\ IsDictSubclass(item.cls))

serialize_keras_class_and_config(cls_name, cls_config) ==
  Dict([class_name |-> Str(cls_name), config |-> Dict(cls_config)])

\* the branch of serialize_keras_object taken when get_config raised NotImplementedError
SerializeUndefinedConfig(skip, name) ==
  IF skip
  THEN serialize_keras_class_and_config(name, (LAYER_UNDEFINED_CONFIG_KEY :> Bool(TRUE)))
  ELSE Raise("NotImplementedError")

\* a SerializedItem that marks every dict, whatever the item was
SerializedItem_AlwaysMark(item, serialized_item) ==
  IF serialized_item.t = "raise"
  THEN IF serialized_item.exc = "ValueError" THEN item ELSE serialized_item
  ELSE IF serialized_item.t = "dict"
       THEN Dict(DictSet(serialized_item.d, "__passive_serialization__", Bool(TRUE)))
       ELSE serialized_item

\* the value stored for a non-string item whose serialization is serialized_item
\* (a Raise record when serialize_keras_object(item) raised)
SerializedItem(item, serialized_item) ==
  IF serialized_item.t = "raise"
  THEN IF serialized_item.exc = "ValueError" THEN item ELSE serialized_item
  ELSE IF serialized_item.t = "dict" /\ ~IsDictValue(item)
       THEN Dict(DictSet(serialized_item.d, PASSIVE_KEY, Bool(TRUE)))
       ELSE serialized_item

RECURSIVE serialize_keras_object(_, _, _)
serialize_keras_object(n, skip, instance) ==
  IF instance.t = "none" THEN None
  ELSE IF instance.t = "inst" /\ HasGetConfig(instance.cls) THEN
    LET name == get_registered_name(n, instance.cls) IN
    IF GetConfigRaises(instance.cls) THEN SerializeUndefinedConfig(skip, name)
    ELSE
      LET config == instance.config
          entry(key) ==
            IF config[key].t = "str" THEN config[key]
            ELSE SerializedItem(config[key], serialize_keras_object(n, skip, config[key]))
          raising == {key \in DOMAIN config : entry(key).t = "raise"}
      IN IF raising # {} THEN entry(FirstKey(raising))
         ELSE serialize_keras_class_and_config(name, [key \in DOMAIN config |-> entry(key)])
  ELSE IF instance.t = "obj" THEN
    \* a class that defines get_config: instance.get_config() is called without self
    IF IsClass(instance.id) /\ HasGetConfig(instance.id) THEN Raise("TypeError")
    ELSE Str(get_registered_name(n, instance.id))
  ELSE Raise("ValueError")

\* validate_config(config)
validate_config(config) ==
  config.t = "dict" /\ LAYER_UNDEFINED_CONFIG_KEY \notin DOMAIN config.d

(***************************************************************************)
(* deserialize_keras_object                                                *)
(***************************************************************************)
RaiseMsg(e, m) == [t |-> "raise", exc |-> e, msg |-> m]

\* cls.from_config(cls_config) or cls.from_config(cls_config, custom_objects=...)
FromConfigCall(cls, cls_config, custom_objects) ==
  [t |-> "from_config", cls |-> cls, config |-> cls_config, custom_objects |-> custom_objects]
\* cls(**cls_config)
KwargsCall(cls, cls_config) == [t |-> "call", cls |-> cls, kwargs |-> cls_config]
\* obj(): a class passed by name is instantiated with no arguments
Instantiate(cls) == [t |-> "new", cls |-> cls]

\* custom_objects = custom_objects or {}
OrEmpty(x) == IF Truthy(x) THEN x.d ELSE EmptyDict

\* dict(list(_GLOBAL_CUSTOM_OBJECTS.items()) + list(custom_objects.items()))
MergedCustomObjects(g, custom_objects) == DictUpdate(g, OrEmpty(custom_objects))

\* the object a string identifier names, or what the lookup raises
LookupByName(g, object_name, module_objects, custom_objects, printable_module_name) ==
  IF InTable(custom_objects, object_name) THEN Obj(custom_objects.d[object_name])
  ELSE IF object_name \in DOMAIN g THEN Obj(g[object_name])
  ELSE IF module_objects.t = "none"
       THEN RaiseMsg("AttributeError", "'NoneType' object has no attribute 'get'")
  ELSE IF object_name \in DOMAIN module_objects.d THEN Obj(module_objects.d[object_name])
  ELSE RaiseMsg("ValueError", "Unknown " \o printable_module_name \o ":" \o object_name)

\* a string config item that names a function: get_registered_object(item, custom_objects)
NamesFunction(g, item, custom_objects) ==
  /\ item.t = "str"
  /\ LET f == get_registered_object(g, item.v, custom_objects, None)
     IN f.t = "obj" /\ IsFunction(f.id)

\* is the item handed to deserialize_keras_object by class_and_config_...
IsPassiveItem(item) == item.t = "dict" /\ PASSIVE_KEY \in DOMAIN item.d

RECURSIVE deserialize_keras_object(_, _, _, _, _)
RECURSIVE class_and_config_for_serialized_keras_object(_, _, _, _, _)

class_and_config_for_serialized_keras_object(g, config, module_objects, custom_objects, printable_module_name) ==
  IF config.t # "dict" \/ "class_name" \notin DOMAIN config.d \/ "config" \notin DOMAIN config.d
  THEN RaiseMsg("ValueError", "Improper config format")
  ELSE
    LET class_name == config.d["class_name"]
        cls == IF class_name.t = "str"
               THEN get_registered_object(g, class_name.v, custom_objects, module_objects)
               ELSE None
        cls_config == config.d["config"]
    IN IF cls.t = "none"
       THEN IF class_name.t = "str"
            THEN RaiseMsg("ValueError",
                          "Unknown " \o printable_module_name \o ": " \o class_name.v)
            ELSE RaiseMsg("TypeError", "can only concatenate str")
       ELSE IF cls_config.t # "dict"
       THEN RaiseMsg("AttributeError", "object has no attribute 'items'")
       ELSE
         LET entry(key) ==
               LET item == cls_config.d[key] IN
               IF IsPassiveItem(item)
               THEN deserialize_keras_object(g, item, module_objects, custom_objects,
                                             "config_item")
               ELSE IF NamesFunction(g, item, custom_objects)
               THEN get_registered_object(g, item.v, custom_objects, None)
               ELSE item
             raising == {key \in DOMAIN cls_config.d : entry(key).t = "raise"}
         IN IF raising # {} THEN entry(FirstKey(raising))
            ELSE [t |-> "pair", cls |-> cls.id,
                  cls_config |-> [key \in DOMAIN cls_config.d |-> entry(key)]]

deserialize_keras_object(g, identifier, module_objects, custom_objects, printable_module_name) ==
  IF identifier.t = "none" THEN None
  ELSE IF identifier.t = "dict" THEN
    LET cc == class_and_config_for_serialized_keras_object(
                g, identifier, module_objects, custom_objects, printable_module_name)
    IN IF cc.t = "raise" THEN cc
       ELSE IF HasFromConfig(cc.cls)
       THEN IF FromConfigTakesCustomObjects(cc.cls)
            THEN FromConfigCall(cc.cls, cc.cls_config,
                                Dict(MergedCustomObjects(g, custom_objects)))
            ELSE FromConfigCall(cc.cls, cc.cls_config, None)
       ELSE KwargsCall(cc.cls, cc.cls_config)
  ELSE IF identifier.t = "str" THEN
    LET obj == LookupByName(g, identifier.v, module_objects, custom_objects,
                            printable_module_name)
    IN IF obj.t = "raise" THEN obj
       ELSE IF IsClass(obj.id) THEN Instantiate(obj.id)
       ELSE obj
  ELSE IF identifier.t = "obj" /\ IsFunction(identifier.id) THEN identifier
  ELSE RaiseMsg("ValueError", "Could not interpret serialized " \o printable_module_name)

(***************************************************************************)
(* Registry states used as the starting point of the calls under study.    *)
(* Each is built with the operators above from the empty registries.       *)
(***************************************************************************)
Registry(g, n) == [objects |-> g, names |-> n]

RECURSIVE RegisterSeq(_, _)
\* the registries after a sequence of register_keras_serializable calls
\* (a call that raises leaves them as they are)
RegisterSeq(reg, calls) ==
  IF calls = <<>> THEN reg
  ELSE LET c == Head(calls)
           key == registered_name(c[1], class_name_of(c[2], c[3]))
       IN IF DecoratorRaises(reg.objects, reg.names, key, c[3])
          THEN RegisterSeq(reg, Tail(calls))
          ELSE RegisterSeq(Registry(DecoratorObjects(reg.objects, key, c[3]),
                                    DecoratorNames(reg.names, key, c[3])),
                           Tail(calls))

RegEmpty == Registry(EmptyDict, EmptyDict)
\* every class and function registered
RegAll == RegisterSeq(RegEmpty, << <<"Custom", None, "ClsA">>, <<"Custom", None, "ClsB">>,
                                   <<"Custom", None, "ClsD">>, <<"Custom", None, "ClsNI">>,
                                   <<"Custom", None, "fnF">>, <<"pkg", Str("act"), "fnG">> >>)
\* some registered
RegSome == RegisterSeq(RegEmpty, << <<"pkg", None, "ClsA">>, <<"Custom", None, "fnF">> >>)
\* inside `with CustomObjectScope({'relu': fnG}):`, everything registered before
RegScoped == Registry(EnterObjects(RegAll.objects, << [relu |-> "fnG"] >>), RegAll.names)
\* after a `with CustomObjectScope():` block inside which everything was registered
RegReverted == Registry(ExitObjects(RegAll.objects, EnterBackup(EmptyDict)), RegAll.names)

Registries == {RegEmpty, RegAll, RegSome, RegScoped, RegReverted}

(***************************************************************************)
(* Objects handed to serialize_keras_object: trees of instances up to      *)
(* MaxDepth deep.                                                          *)
(***************************************************************************)
Leaves == { None, Str("relu"), Str("linear"), Str("Custom>f"), Obj("fnF"), Obj("fnG"),
            Obj("ClsNoCfg"), IntVal(1), Dict(EmptyDict), Instance("ClsNoCfg", EmptyDict) }
SecondItems == { Str("relu"), Obj("fnF") }
InstanceClasses == {"ClsA", "ClsB", "ClsD", "ClsNI"}

\* the configs get_config may return over the values V
Configs(V) ==
  {EmptyDict} \cup { [k1 |-> v] : v \in V }
              \cup { [k1 |-> v, k2 |-> w] : v \in V, w \in SecondItems }

RECURSIVE Values(_)
Values(depth) ==
  IF depth = 0 THEN Leaves
  ELSE Leaves \cup { Instance(c, cfg) : c \in InstanceClasses, cfg \in Configs(Values(depth - 1)) }

InitSer ==
  /\ \E r \in Registries :
       /\ GLOBAL_CUSTOM_OBJECTS = r.objects
       /\ GLOBAL_CUSTOM_NAMES = r.names
  /\ SKIP_FAILED_SERIALIZATION \in BOOLEAN
  /\ scopes = [s \in ScopeIds |-> CustomObjectScopeInit(ScopeArgs(s))]
  /\ stack = <<>>
  /\ pc = NoPc
  /\ input \in Values(MaxDepth)
  /\ ret = [op |-> "init"]

\* ret = serialize_keras_object(input)
SerializeCall ==
  /\ ret.op = "init"
  /\ ret' = [op |-> "serialize",
             out |-> serialize_keras_object(GLOBAL_CUSTOM_NAMES, SKIP_FAILED_SERIALIZATION,
                                            input)]
  /\ UNCHANGED <<GLOBAL_CUSTOM_OBJECTS, GLOBAL_CUSTOM_NAMES, SKIP_FAILED_SERIALIZATION,
                 scopes, stack, pc, input>>

\* ret = deserialize_keras_object(serialize_keras_object(input))
RoundTripCall ==
  /\ ret.op = "init"
  /\ LET ser == serialize_keras_object(GLOBAL_CUSTOM_NAMES, SKIP_FAILED_SERIALIZATION, input)
     IN ret' = [op |-> "roundtrip",
                out |-> IF ser.t = "raise" THEN ser
                        ELSE deserialize_keras_object(GLOBAL_CUSTOM_OBJECTS, ser, None, None,
                                                      "object")]
  /\ UNCHANGED <<GLOBAL_CUSTOM_OBJECTS, GLOBAL_CUSTOM_NAMES, SKIP_FAILED_SERIALIZATION,
                 scopes, stack, pc, input>>

NextSer == SerializeCall \/ RoundTripCall

SpecSer == InitSer /\ [][NextSer]_vars

(***************************************************************************)
(* Single calls of get_registered_object and deserialize_keras_object on   *)
(* a given registry, for every combination of the optional tables.         *)
(***************************************************************************)
OptionalTables == { None, Dict(EmptyDict), Dict([relu |-> "fnF"]),
                    Dict(("Custom>A" :> "ClsB") @@ [other |-> "fnG"]) }
LookupNames == {"Custom>A", "relu", "other", "nope"}
PrintableModuleNames == {"object", "layer"}

\* what config_item deserialization meets inside a config
UnknownItem == Dict([class_name |-> Str("nope"), config |-> Dict(EmptyDict)]
                    @@ (PASSIVE_KEY :> Bool(TRUE)))
KnownItem == Dict([class_name |-> Str("Custom>A"), config |-> Dict(EmptyDict)]
                  @@ (PASSIVE_KEY :> Bool(TRUE)))

Identifiers ==
  { None, Obj("fnF"), Obj("ClsA"), IntVal(1), Instance("ClsA", EmptyDict),
    Dict(EmptyDict),
    Dict([class_name |-> Str("Custom>A")]),
    Dict([config |-> Dict(EmptyDict)]),
    Dict([class_name |-> None, config |-> Dict(EmptyDict)]),
    Dict([class_name |-> Str("Custom>A"), config |-> None]),
    Dict([class_name |-> Str("Custom>A"), config |-> Dict(EmptyDict)]),
    Dict([class_name |-> Str("Custom>B"), config |-> Dict([k1 |-> Str("relu")])]),
    Dict([class_name |-> Str("relu"), config |-> Dict([k1 |-> IntVal(1)])]),
    Dict([class_name |-> Str("nope"), config |-> Dict(EmptyDict)]),
    Dict([class_name |-> Str("Custom>A"), config |-> Dict([k1 |-> UnknownItem])]),
    Dict([class_name |-> Str("Custom>A"), config |-> Dict([k1 |-> KnownItem])]) }
  \cup { Str(n) : n \in LookupNames }

CallInputs ==
  { [op |-> "lookup", name |-> n, custom_objects |-> co, module_objects |-> mo] :
      n \in LookupNames, co \in OptionalTables, mo \in OptionalTables }
  \cup
  { [op |-> "deserialize", identifier |-> i, module_objects |-> mo, custom_objects |-> co,
     printable_module_name |-> pmn] :
      i \in Identifiers, mo \in OptionalTables, co \in OptionalTables,
      pmn \in PrintableModuleNames }

InitCall ==
  /\ \E r \in Registries :
       /\ GLOBAL_CUSTOM_OBJECTS = r.objects
       /\ GLOBAL_CUSTOM_NAMES = r.names
  /\ SKIP_FAILED_SERIALIZATION = FALSE
  /\ scopes = [s \in ScopeIds |-> CustomObjectScopeInit(ScopeArgs(s))]
  /\ stack = <<>>
  /\ pc = NoPc
  /\ input \in CallInputs
  /\ ret = [op |-> "init"]

\* ret = get_registered_object(name, custom_objects, module_objects)
GetRegisteredObjectCall ==
  /\ ret.op = "init"
  /\ input.op = "lookup"
  /\ ret' = [op |-> "lookup",
             out |-> get_registered_object(GLOBAL_CUSTOM_OBJECTS, input.name,
                                           input.custom_objects, input.module_objects)]
  /\ UNCHANGED <<GLOBAL_CUSTOM_OBJECTS, GLOBAL_CUSTOM_NAMES, SKIP_FAILED_SERIALIZATION,
                 scopes, stack, pc, input>>

\* the registry after deserialize_keras_object returned `out`: the calls that reach
\* from_config(cls_config) or cls(**cls_config) run it inside
\* `with CustomObjectScope(custom_objects):`, a fresh scope object
DeserializeObjects(g, custom_objects, out) ==
  IF out.t = "call" \/ (out.t = "from_config" /\ out.custom_objects.t = "none")
  THEN ExitObjects(EnterObjects(g, << OrEmpty(custom_objects) >>), EnterBackup(g))
  ELSE g

\* ret = deserialize_keras_object(identifier, module_objects, custom_objects,
\*                                printable_module_name)
DeserializeCall ==
  /\ ret.op = "init"
  /\ input.op = "deserialize"
  /\ LET out == deserialize_keras_object(GLOBAL_CUSTOM_OBJECTS, input.identifier,
                                         input.module_objects, input.custom_objects,
                                         input.printable_module_name)
     IN /\ ret' = [op |-> "deserialize", out |-> out]
        /\ GLOBAL_CUSTOM_OBJECTS' =
             DeserializeObjects(GLOBAL_CUSTOM_OBJECTS, input.custom_objects, out)
  /\ UNCHANGED <<GLOBAL_CUSTOM_NAMES, SKIP_FAILED_SERIALIZATION, scopes, stack, pc, input>>

NextCall == GetRegisteredObjectCall \/ DeserializeCall

SpecCall == InitCall /\ [][NextCall]_vars

(***************************************************************************)
(* The registry state machine, completed with deserialize calls.           *)
(***************************************************************************)
RegIdentifiers == { Dict([class_name |-> Str("Custom>A"), config |-> Dict(EmptyDict)]) }
RegCustomObjects == { None, Dict([MyObject |-> "fnG"]) }

\* deserialize_keras_object(identifier, custom_objects=custom_objects)
Deserialize(identifier, custom_objects) ==
  LET out == deserialize_keras_object(GLOBAL_CUSTOM_OBJECTS, identifier, None,
                                      custom_objects, "object")
  IN /\ ret' = [op |-> "deserialize", out |-> out]
     /\ GLOBAL_CUSTOM_OBJECTS' = DeserializeObjects(GLOBAL_CUSTOM_OBJECTS, custom_objects, out)
     /\ UNCHANGED <<GLOBAL_CUSTOM_NAMES, SKIP_FAILED_SERIALIZATION, scopes, stack, pc, input>>

NextReg ==
  \/ \E s \in ScopeIds : Enter(s)
  \/ Exit
  \/ \E c \in RegisterCalls : Register(c[1], c[2], c[3])
  \/ \E k \in MutationKeys, o \in MutationObjects : SetItem(k, o)
  \/ \E i \in RegIdentifiers, co \in RegCustomObjects : Deserialize(i, co)

Spec == InitReg /\ [][NextReg]_vars

(***************************************************************************)
(* skip_failed_serialization(): nested contexts around serialize calls.    *)
(***************************************************************************)
\* prev = _SKIP_FAILED_SERIALIZATION, kept by the context's generator
SkipPrev(flag) == flag
\* try: _SKIP_FAILED_SERIALIZATION = True
SkipBody(flag) == TRUE
\* a finally clause that resets the flag instead of restoring it
SkipFinally_Reset(flag, prev) == FALSE

\* finally: _SKIP_FAILED_SERIALIZATION = prev
SkipFinally(flag, prev) == prev

SkipInputs == Values(1)

InitSkip ==
  /\ \E r \in {RegEmpty, RegAll} :
       /\ GLOBAL_CUSTOM_OBJECTS = r.objects
       /\ GLOBAL_CUSTOM_NAMES = r.names
  /\ SKIP_FAILED_SERIALIZATION = FALSE
  /\ scopes = [s \in ScopeIds |-> CustomObjectScopeInit(ScopeArgs(s))]
  /\ stack = <<>>
  /\ pc = NoPc
  /\ input = NoInput
  /\ ret = [op |-> "init"]

\* `with skip_failed_serialization():` begins
SkipEnter ==
  /\ Len(stack) < MaxSkipNesting
  /\ stack' = <<Frame("skip", "", EmptyDict, SkipPrev(SKIP_FAILED_SERIALIZATION))>> \o stack
  /\ SKIP_FAILED_SERIALIZATION' = SkipBody(SKIP_FAILED_SERIALIZATION)
  /\ ret' = [op |-> "skip_enter"]
  /\ UNCHANGED <<GLOBAL_CUSTOM_OBJECTS, GLOBAL_CUSTOM_NAMES, scopes, pc, input>>

\* the innermost context ends, its body having returned or raised
SkipExit(raised) ==
  /\ stack # <<>>
  /\ Head(stack).kind = "skip"
  /\ SKIP_FAILED_SERIALIZATION' = SkipFinally(SKIP_FAILED_SERIALIZATION, Head(stack).prev)
  /\ stack' = Tail(stack)
  /\ ret' = [op |-> "skip_exit", raised |-> raised]
  /\ UNCHANGED <<GLOBAL_CUSTOM_OBJECTS, GLOBAL_CUSTOM_NAMES, scopes, pc, input>>

\* ret = serialize_keras_object(x), called at the current nesting
SerializeInContext(x) ==
  /\ input' = x
  /\ ret' = [op |-> "serialize",
             out |-> serialize_keras_object(GLOBAL_CUSTOM_NAMES, SKIP_FAILED_SERIALIZATION, x)]
  /\ UNCHANGED <<GLOBAL_CUSTOM_OBJECTS, GLOBAL_CUSTOM_NAMES, SKIP_FAILED_SERIALIZATION,
                 scopes, stack, pc>>

NextSkip ==
  \/ SkipEnter
  \/ \E raised \in BOOLEAN : SkipExit(raised)
  \/ \E x \in SkipInputs : SerializeInContext(x)

SpecSkip == InitSkip /\ [][NextSkip]_vars

(***************************************************************************)
(* Two threads, each running `with CustomObjectScope(d): pass` on the      *)
(* shared _GLOBAL_CUSTOM_OBJECTS.  A step is one dict operation: copy(),   *)
(* update() and clear() are each atomic under the interpreter lock, and a  *)
(* thread switch may happen between any two of them.                       *)
(***************************************************************************)
\* thread t uses its own scope object, scopes[t]
Threads == ScopeIds
ConcArgs == { << [MyObject |-> "fnF"] >>,
              << ("Custom>A" :> "ClsB"), [MyObject |-> "ClsB"] >>,
              << [Other |-> "fnG"] >> }
ConcInitialObjects == { EmptyDict, RegSome.objects, [MyObject |-> "ClsA"] }

At(loc, i) == [loc |-> loc, i |-> i]

InitConc ==
  /\ GLOBAL_CUSTOM_OBJECTS \in ConcInitialObjects
  /\ GLOBAL_CUSTOM_NAMES = EmptyDict
  /\ SKIP_FAILED_SERIALIZATION = FALSE
  /\ scopes \in [Threads -> {CustomObjectScopeInit(a) : a \in ConcArgs}]
  /\ stack = <<>>
  /\ pc = [t \in Threads |-> At("start", 0)]
  /\ input = [op |-> "threads", initial |-> GLOBAL_CUSTOM_OBJECTS]
  /\ ret = [op |-> "init"]

\* __enter__, first statement: self.backup = _GLOBAL_CUSTOM_OBJECTS.copy()
EnterCopy(t) ==
  /\ pc[t].loc = "start"
  /\ scopes' = [scopes EXCEPT ![t].backup = EnterBackup(GLOBAL_CUSTOM_OBJECTS)]
  /\ pc' = [pc EXCEPT ![t] = IF scopes[t].custom_objects = <<>> THEN At("body", 0)
                                                                ELSE At("update", 1)]
  /\ UNCHANGED <<GLOBAL_CUSTOM_OBJECTS, GLOBAL_CUSTOM_NAMES, SKIP_FAILED_SERIALIZATION,
                 stack, input, ret>>

\* __enter__, one round of the loop: _GLOBAL_CUSTOM_OBJECTS.update(objects)
EnterUpdate(t) ==
  /\ pc[t].loc = "update"
  /\ GLOBAL_CUSTOM_OBJECTS' =
       DictUpdate(GLOBAL_CUSTOM_OBJECTS, scopes[t].custom_objects[pc[t].i])
  /\ pc' = [pc EXCEPT ![t] = IF pc[t].i < Len(scopes[t].custom_objects)
                             THEN At("update", pc[t].i + 1)
                             ELSE At("body", 0)]
  /\ UNCHANGED <<GLOBAL_CUSTOM_NAMES, SKIP_FAILED_SERIALIZATION, scopes, stack, input, ret>>

\* __exit__, first statement: _GLOBAL_CUSTOM_OBJECTS.clear()
ExitClear(t) ==
  /\ pc[t].loc = "body"
  /\ GLOBAL_CUSTOM_OBJECTS' = EmptyDict
  /\ pc' = [pc EXCEPT ![t] = At("cleared", 0)]
  /\ UNCHANGED <<GLOBAL_CUSTOM_NAMES, SKIP_FAILED_SERIALIZATION, scopes, stack, input, ret>>

\* __exit__, second statement: _GLOBAL_CUSTOM_OBJECTS.update(self.backup)
ExitUpdate(t) ==
  /\ pc[t].loc = "cleared"
  /\ GLOBAL_CUSTOM_OBJECTS' = DictUpdate(GLOBAL_CUSTOM_OBJECTS, scopes[t].backup.d)
  /\ pc' = [pc EXCEPT ![t] = At("done", 0)]
  /\ UNCHANGED <<GLOBAL_CUSTOM_NAMES, SKIP_FAILED_SERIALIZATION, scopes, stack, input, ret>>

NextConc ==
  \E t \in Threads : EnterCopy(t) \/ EnterUpdate(t) \/ ExitClear(t) \/ ExitUpdate(t)

SpecConc == InitConc /\ [][NextConc]_vars

(***************************************************************************)
(* The claims.                                                             *)
(***************************************************************************)

\* C1: when a `with CustomObjectScope(...)` block ends, _GLOBAL_CUSTOM_OBJECTS has
\* exactly the contents it had when that `with` statement began, whatever was done
\* inside (register calls, direct mutation, nested scopes, entering the same scope
\* object again).
C1_ScopeRestoresEntryState ==
  ret.op = "exit" => GLOBAL_CUSTOM_OBJECTS = ret.entry

\* the key 'package>name' of the register call recorded in r
CallKey(r) ==
  r.package \o ">" \o (IF r.name.t = "none" THEN DunderName(r.arg) ELSE r.name.v)

\* C2: a successful register_keras_serializable(package, name)(obj) returns obj,
\* binds package + '>' + name (name defaulting to obj.__name__) to obj in
\* _GLOBAL_CUSTOM_OBJECTS and obj to that key in _GLOBAL_CUSTOM_NAMES, so that
\* get_registered_object(key) is obj and get_registered_name(obj) is key, and
\* changes no other entry; get_registered_name of an unregistered object is its
\* __name__.
C2_RegisterSuccess ==
  [][ (ret'.op = "register" /\ ret'.out.t # "raise") =>
        LET key == CallKey(ret')
            arg == ret'.arg
        IN /\ ret'.out = Obj(arg)
           /\ get_registered_object(GLOBAL_CUSTOM_OBJECTS', key, None, None) = Obj(arg)
           /\ get_registered_name(GLOBAL_CUSTOM_NAMES', arg) = key
           /\ DOMAIN GLOBAL_CUSTOM_OBJECTS' = DOMAIN GLOBAL_CUSTOM_OBJECTS \cup {key}
           /\ DOMAIN GLOBAL_CUSTOM_NAMES' = DOMAIN GLOBAL_CUSTOM_NAMES \cup {arg}
           /\ \A k \in DOMAIN GLOBAL_CUSTOM_OBJECTS \ {key} :
                GLOBAL_CUSTOM_OBJECTS'[k] = GLOBAL_CUSTOM_OBJECTS[k]
           /\ \A o \in DOMAIN GLOBAL_CUSTOM_NAMES \ {arg} :
                GLOBAL_CUSTOM_NAMES'[o] = GLOBAL_CUSTOM_NAMES[o]
           /\ \A o \in Objects \ DOMAIN GLOBAL_CUSTOM_NAMES' :
                get_registered_name(GLOBAL_CUSTOM_NAMES', o) = DunderName(o)
    ]_vars

\* a register call with the default name succeeded while other entries exist
C2_Witness ==
  /\ ret.op = "register"
  /\ ret.out.t = "obj"
  /\ ret.name.t = "none"
  /\ Cardinality(DOMAIN GLOBAL_CUSTOM_OBJECTS) >= 2

\* C3: register_keras_serializable raises ValueError and leaves both registries
\* unchanged when the object is a class without get_config, when the key is already
\* in _GLOBAL_CUSTOM_OBJECTS, or when the object is already in _GLOBAL_CUSTOM_NAMES;
\* hence a register call never rebinds an existing name or an already named object.
C3_RegisterRejects ==
  [][ ret'.op = "register" =>
        LET key == CallKey(ret')
            arg == ret'.arg
        IN /\ ( \/ IsClass(arg) /\ ~HasGetConfig(arg)
                \/ key \in DOMAIN GLOBAL_CUSTOM_OBJECTS
                \/ arg \in DOMAIN GLOBAL_CUSTOM_NAMES )
              => /\ ret'.out = Raise("ValueError")
                 /\ GLOBAL_CUSTOM_OBJECTS' = GLOBAL_CUSTOM_OBJECTS
                 /\ GLOBAL_CUSTOM_NAMES' = GLOBAL_CUSTOM_NAMES
           /\ \A k \in DOMAIN GLOBAL_CUSTOM_OBJECTS :
                k \in DOMAIN GLOBAL_CUSTOM_OBJECTS'
                  /\ GLOBAL_CUSTOM_OBJECTS'[k] = GLOBAL_CUSTOM_OBJECTS[k]
           /\ \A o \in DOMAIN GLOBAL_CUSTOM_NAMES :
                o \in DOMAIN GLOBAL_CUSTOM_NAMES'
                  /\ GLOBAL_CUSTOM_NAMES'[o] = GLOBAL_CUSTOM_NAMES[o]
    ]_vars

\* a register call was rejected only because the object already has a name
C3_Witness ==
  /\ ret.op = "register"
  /\ ret.out.t = "raise"
  /\ ret.arg \in DOMAIN GLOBAL_CUSTOM_NAMES
  /\ CallKey(ret) \notin DOMAIN GLOBAL_CUSTOM_OBJECTS
  /\ ~(IsClass(ret.arg) /\ ~HasGetConfig(ret.arg))

\* C10: the forward and reverse registries stay consistent: for every object o of
\* _GLOBAL_CUSTOM_NAMES the name _GLOBAL_CUSTOM_NAMES[o] is a key of
\* _GLOBAL_CUSTOM_OBJECTS and maps to o.  Stated for the states outside every
\* `with` block, where no scoped override is in force.
C10_RegistriesConsistent ==
  stack = <<>> =>
    \A o \in DOMAIN GLOBAL_CUSTOM_NAMES :
      /\ GLOBAL_CUSTOM_NAMES[o] \in DOMAIN GLOBAL_CUSTOM_OBJECTS
      /\ GLOBAL_CUSTOM_OBJECTS[GLOBAL_CUSTOM_NAMES[o]] = o

\* the table lookup of a name: membership, then the value
TableHas(table, name) == table.t = "dict" /\ name \in DOMAIN table.d

Unresolvable(g, i, mo, co) ==
  \/ i.t = "dict" /\ ("class_name" \notin DOMAIN i.d \/ "config" \notin DOMAIN i.d)
  \/ /\ i.t = "dict" /\ "class_name" \in DOMAIN i.d /\ "config" \in DOMAIN i.d
     /\ i.d["class_name"].t = "str"
     /\ LET n == i.d["class_name"].v
        IN n \notin DOMAIN g /\ ~TableHas(co, n) /\ ~TableHas(mo, n)
  \/ i.t = "str" /\ i.v \notin DOMAIN g /\ ~TableHas(co, i.v) /\ ~TableHas(mo, i.v)
  \/ i.t \notin {"none", "dict", "str"} /\ ~(i.t = "obj" /\ IsFunction(i.id))

\* C6: deserialize_keras_object raises ValueError for every identifier it cannot
\* resolve, whatever custom_objects and module_objects are (both may be None), and
\* returns None for None.
C6_UnresolvedIsValueError ==
  ret.op = "deserialize" =>
    /\ input.identifier.t = "none" => ret.out = None
    /\ Unresolvable(GLOBAL_CUSTOM_OBJECTS, input.identifier, input.module_objects,
                    input.custom_objects)
         => ret.out.t = "raise" /\ ret.out.exc = "ValueError"

\* C9: once both threads have left their `with CustomObjectScope(d_i)` block,
\* _GLOBAL_CUSTOM_OBJECTS has the contents it had before either block began.
C9_ConcurrentScopesRestore ==
  (\A t \in Threads : pc[t].loc = "done") => GLOBAL_CUSTOM_OBJECTS = input.initial

\* C7: the flag is True throughout the body of skip_failed_serialization(), also in
\* nested contexts, and False once every context has exited, normally or by an
\* exception: each exit sets it back to its value on entry.  A get_config that
\* raises NotImplementedError is re-raised outside the context; inside, the result
\* is class_name with the config {'layer was saved without config': True}, which
\* validate_config rejects.
C7_SkipFailedSerialization ==
  /\ SKIP_FAILED_SERIALIZATION <=> (stack # <<>>)
  /\ (ret.op = "serialize" /\ input.t = "inst" /\ GetConfigRaises(input.cls)) =>
       IF stack = <<>>
       THEN ret.out = Raise("NotImplementedError")
       ELSE /\ ret.out.t = "dict"
            /\ DOMAIN ret.out.d = {"class_name", "config"}
            /\ ret.out.d["class_name"] = Str(get_registered_name(GLOBAL_CUSTOM_NAMES, input.cls))
            /\ ret.out.d["config"] = Dict(("layer was saved without config" :> Bool(TRUE)))
            /\ ~validate_config(ret.out.d["config"])

\* after serializing an object whose get_config raises, an inner context has exited
\* by an exception while the outer one is still open
C7_Witness ==
  /\ input.t = "inst"
  /\ GetConfigRaises(input.cls)
  /\ ret.op = "skip_exit"
  /\ ret.raised
  /\ Len(stack) = 1
  /\ SKIP_FAILED_SERIALIZATION

RECURSIVE NestedGetConfigRaises(_)
\* some object nested in the config has a get_config that raises
NestedGetConfigRaises(config) ==
  \E k \in DOMAIN config :
    /\ config[k].t = "inst"
    /\ HasGetConfig(config[k].cls)
    /\ GetConfigRaises(config[k].cls) \/ NestedGetConfigRaises(config[k].config)

\* what C5 says of the entry stored for the config value v
ItemAsClaimed(n, skip, v, stored) ==
  IF v.t = "str" THEN stored = v
  ELSE IF v.t = "none" THEN stored = None
  ELSE IF v.t = "obj" THEN stored = Str(get_registered_name(n, v.id))
  ELSE IF v.t = "inst" /\ HasGetConfig(v.cls) THEN
    LET nested == serialize_keras_object(n, skip, v) IN
    /\ nested.t = "dict"
    /\ IF IsDictSubclass(v.cls) THEN stored = nested
       ELSE /\ stored.t = "dict"
            /\ DOMAIN stored.d = DOMAIN nested.d \cup {"__passive_serialization__"}
            /\ stored.d["__passive_serialization__"] = Bool(TRUE)
            /\ \A f \in DOMAIN nested.d : stored.d[f] = nested.d[f]
  ELSE stored = v

RegisteredObject(g, n, o) == o \in DOMAIN n /\ n[o] \in DOMAIN g /\ g[n[o]] = o

RECURSIVE RoundTripInput(_, _, _)
\* the object trees C8 is about (classes that are not dict subclasses)
RoundTripInput(g, n, x) ==
  /\ x.t = "inst"
  /\ RegisteredObject(g, n, x.cls)
  /\ HasGetConfig(x.cls) /\ ~GetConfigRaises(x.cls) /\ HasFromConfig(x.cls)
  /\ ~IsDictSubclass(x.cls)
  /\ \A k \in DOMAIN x.config :
       LET v == x.config[k] IN
       \/ v.t = "str"
       \/ v.t = "obj" /\ IsFunction(v.id) /\ RegisteredObject(g, n, v.id)
       \/ v.t = "inst" /\ RoundTripInput(g, n, v)

RECURSIVE Rebuilt(_, _)
\* y is the from_config call that rebuilds x
Rebuilt(x, y) ==
  /\ y.t = "from_config"
  /\ y.cls = x.cls
  /\ DOMAIN y.config = DOMAIN x.config
  /\ \A k \in DOMAIN x.config :
       LET v == x.config[k]
           w == y.config[k]
       IN IF v.t = "inst" THEN Rebuilt(v, w) ELSE w = v

\* C8: deserialize_keras_object(serialize_keras_object(x)), for a tree x of
\* registered classes whose config values are plain strings, registered functions
\* or nested objects, calls type(x).from_config with a config of the same keys in
\* which nested objects are rebuilt from their class, functions are the original
\* functions and plain strings are unchanged.
C8_RoundTrip ==
  (ret.op = "roundtrip" /\ RoundTripInput(GLOBAL_CUSTOM_OBJECTS, GLOBAL_CUSTOM_NAMES, input))
    => Rebuilt(input, ret.out)

====
